---- MODULE Spec2Model ----
(***************************************************************************)
(* Model of ci/fireci/fireci/gradle.py: run() builds the child's           *)
(* environment and command, logs the command, launches ./gradlew with      *)
(* stderr merged into a stdout pipe, logs every output line as it arrives, *)
(* waits for the child, and raises CalledProcessError or returns a         *)
(* CompletedProcess.  The child process and the launch primitive are the   *)
(* environment of run(): they emit lines, close the pipe, exit, or fail to *)
(* launch, nondeterministically.                                           *)
(***************************************************************************)
EXTENDS Integers, Sequences, FiniteSets, TLC

\* ---------------------------------------------------------------- bounds
MaxArgs == 2
MaxLines == 2

\* ------------------------------------------------------- program constants
ADB_INSTALL_TIMEOUT == "5"
Wrapper == "./gradlew"

\* ------------------------------------------------------------ value sets
None == "None"
Absent == "absent"
StreamRef == "p.stdout"
EnvNames == {"GRADLE_OPTS", "ADB_INSTALL_TIMEOUT", "PATH"}
ArgValues == {"assemble", "-Pk=v"}
OptValues == {"", "-Xmx2g"}
DirValues == {None, "subproject"}
ExitCodes == {-9, 0, 1}
\* output lines as bytes, newline included: "a\n", " \n", "\xff\n"
LineValues == {<<97, 10>>, <<32, 10>>, <<255, 10>>}
Whitespace == {" ", "\n"}

SeqsUpTo(S, n) == UNION {[1..k -> S] : k \in 0..n}

Environs ==
  {e \in [EnvNames -> {Absent, "-Xmx1g", "2", "/usr/bin"}] :
      /\ e["GRADLE_OPTS"] \in {Absent, "-Xmx1g"}
      /\ e["ADB_INSTALL_TIMEOUT"] \in {Absent, "2"}
      /\ e["PATH"] = "/usr/bin"}

NoExc == [kind |-> "none"]
NoResult == [kind |-> "none"]

VARIABLES
  args, gradle_opts, workdir, check, environ,   \* the call and os.environ
  pc, new_env, command, log, attempts,          \* run()'s locals, the logger
  popenArgs, popenCwd, popenEnv,                \* what Popen was handed
  returncode, exc, result,                      \* p.returncode, raised, returned
  childState, exitCode, emitted, pipe, writeOpen, streamClosed

vars == <<args, gradle_opts, workdir, check, environ, pc, new_env, command,
          log, attempts, popenArgs, popenCwd, popenEnv, returncode, exc,
          result, childState, exitCode, emitted, pipe, writeOpen,
          streamClosed>>

inputVars == <<args, gradle_opts, workdir, check, environ>>
childVars == <<childState, exitCode, emitted, pipe, writeOpen>>
popenVars == <<popenArgs, popenCwd, popenEnv>>

\* ------------------------------------------------------- pure functions
\* bytes.decode(): UTF-8; the ASCII bytes map to themselves, 0xff is invalid
Decodable(b) == \A i \in 1..Len(b) : b[i] < 128

Chr(n) == CASE n = 97 -> "a" [] n = 32 -> " " [] n = 10 -> "\n"

decode(b) == [i \in 1..Len(b) |-> Chr(b[i])]

RECURSIVE rstrip(_)
rstrip(s) ==
  IF s = <<>> THEN s
  ELSE IF s[Len(s)] \in Whitespace THEN rstrip(SubSeq(s, 1, Len(s) - 1))
  ELSE s

RECURSIVE join(_)
join(xs) ==
  IF Len(xs) <= 1 THEN xs
  ELSE <<xs[1], " ">> \o join(Tail(xs))

NewEnv_AlwaysSetOpts(env, opts) ==
  [n \in EnvNames |->
     IF n = "ADB_INSTALL_TIMEOUT" THEN ADB_INSTALL_TIMEOUT
     ELSE IF n = "GRADLE_OPTS" THEN opts
     ELSE env[n]]

NewEnv_SetDefaultTimeout(env, opts) ==
  [n \in EnvNames |->
     IF n = "ADB_INSTALL_TIMEOUT"
       THEN (IF env[n] = Absent THEN ADB_INSTALL_TIMEOUT ELSE env[n])
     ELSE IF n = "GRADLE_OPTS" /\ opts # "" THEN opts
     ELSE env[n]]

\* lines 31-35
NewEnv(env, opts) ==
  [n \in EnvNames |->
     IF n = "ADB_INSTALL_TIMEOUT" THEN ADB_INSTALL_TIMEOUT
     ELSE IF n = "GRADLE_OPTS" /\ opts # "" THEN opts
     ELSE env[n]]

Command_WrapperLast(a) == a \o <<Wrapper>>

\* line 37
Command(a) == <<Wrapper>> \o a

\* lines 38-39
CommandRecord(cmd, dir) ==
  [msg |-> "Executing gradle command", command |-> join(cmd),
   dir |-> IF dir # None THEN dir ELSE "."]

\* line 49
OutputRecord(line) == [msg |-> rstrip(decode(line))]

ShouldRaise_IgnoreCheck(chk, rc) == rc # <<>> /\ rc[1] # 0

\* line 53: "check and p.returncode"
ShouldRaise(chk, rc) == chk /\ rc # <<>> /\ rc[1] # 0

\* line 54
CalledProcessError(rc, cmd, out, err) ==
  [kind |-> "CalledProcessError", returncode |-> rc, cmd |-> cmd,
   output |-> out, stderr |-> err]

\* line 55
CompletedProcess(cmd, rc, out, err) ==
  [kind |-> "CompletedProcess", args |-> cmd, returncode |-> rc,
   stdout |-> out, stderr |-> err]

\* ------------------------------------------------------------------ Init
Init ==
  /\ args \in SeqsUpTo(ArgValues, MaxArgs)
  /\ gradle_opts \in OptValues
  /\ workdir \in DirValues
  /\ check \in BOOLEAN
  /\ environ \in Environs
  /\ pc = "start"
  /\ new_env = environ
  /\ command = <<>>
  /\ log = <<>>
  /\ attempts = 0
  /\ popenArgs = <<>>
  /\ popenCwd = None
  /\ popenEnv = environ
  /\ returncode = <<>>
  /\ exc = NoExc
  /\ result = NoResult
  /\ childState = "none"
  /\ exitCode = <<>>
  /\ emitted = <<>>
  /\ pipe = <<>>
  /\ writeOpen = FALSE
  /\ streamClosed = FALSE

\* ------------------------------------------------------- run(), by step
\* lines 31-39: environment, command, the command log line
Prepare ==
  /\ pc = "start"
  /\ new_env' = NewEnv(environ, gradle_opts)
  /\ command' = Command(args)
  /\ log' = Append(log, CommandRecord(Command(args), workdir))
  /\ pc' = "popen"
  /\ UNCHANGED <<inputVars, attempts, popenVars, returncode, exc, result,
                 childVars, streamClosed>>

\* lines 41-47, the launch succeeds
PopenOK ==
  /\ pc = "popen"
  /\ attempts' = attempts + 1
  /\ popenArgs' = command
  /\ popenCwd' = workdir
  /\ popenEnv' = new_env
  /\ childState' = "running"
  /\ writeOpen' = TRUE
  /\ pc' = "reading"
  /\ UNCHANGED <<inputVars, new_env, command, log, returncode, exc, result,
                 exitCode, emitted, pipe, streamClosed>>

PopenFail_Swallow ==
  /\ pc = "popen"
  /\ attempts' = attempts + 1
  /\ popenArgs' = command
  /\ popenCwd' = workdir
  /\ popenEnv' = new_env
  /\ result' = CompletedProcess(command, returncode, None, None)
  /\ pc' = "done"
  /\ UNCHANGED <<inputVars, new_env, command, log, returncode, exc,
                 childVars, streamClosed>>

\* lines 41-47, the launch raises (no such file, permission denied)
PopenFail ==
  /\ pc = "popen"
  /\ attempts' = attempts + 1
  /\ popenArgs' = command
  /\ popenCwd' = workdir
  /\ popenEnv' = new_env
  /\ exc' = [kind |-> "OSError"]
  /\ pc' = "done"
  /\ UNCHANGED <<inputVars, new_env, command, log, returncode, result,
                 childVars, streamClosed>>

ReadLine_Buffered ==
  /\ pc = "reading"
  /\ pipe # <<>>
  /\ ~writeOpen
  /\ IF Decodable(Head(pipe))
       THEN /\ log' = Append(log, OutputRecord(Head(pipe)))
            /\ UNCHANGED <<exc, pc>>
       ELSE /\ exc' = [kind |-> "UnicodeDecodeError"]
            /\ pc' = "exit"
            /\ UNCHANGED log
  /\ pipe' = Tail(pipe)
  /\ UNCHANGED <<inputVars, new_env, command, attempts, popenVars,
                 returncode, result, childState, exitCode, emitted,
                 writeOpen, streamClosed>>

ReadLine_DropBlank ==
  /\ pc = "reading"
  /\ pipe # <<>>
  /\ IF Decodable(Head(pipe))
       THEN /\ log' = IF rstrip(decode(Head(pipe))) = <<>> THEN log
                      ELSE Append(log, OutputRecord(Head(pipe)))
            /\ UNCHANGED <<exc, pc>>
       ELSE /\ exc' = [kind |-> "UnicodeDecodeError"]
            /\ pc' = "exit"
            /\ UNCHANGED log
  /\ pipe' = Tail(pipe)
  /\ UNCHANGED <<inputVars, new_env, command, attempts, popenVars,
                 returncode, result, childState, exitCode, emitted,
                 writeOpen, streamClosed>>

\* lines 48-49: the next line is in the pipe; decode it and log it, or
\* leave the with block with the decoding error
ReadLine ==
  /\ pc = "reading"
  /\ pipe # <<>>
  /\ IF Decodable(Head(pipe))
       THEN /\ log' = Append(log, OutputRecord(Head(pipe)))
            /\ UNCHANGED <<exc, pc>>
       ELSE /\ exc' = [kind |-> "UnicodeDecodeError"]
            /\ pc' = "exit"
            /\ UNCHANGED log
  /\ pipe' = Tail(pipe)
  /\ UNCHANGED <<inputVars, new_env, command, attempts, popenVars,
                 returncode, result, childState, exitCode, emitted,
                 writeOpen, streamClosed>>

\* line 48: end of stream ends the loop
ReadEOF ==
  /\ pc = "reading"
  /\ pipe = <<>>
  /\ ~writeOpen
  /\ pc' = "communicate"
  /\ UNCHANGED <<inputVars, new_env, command, log, attempts, popenVars,
                 returncode, exc, result, childVars, streamClosed>>

Communicate_NoWait ==
  /\ pc = "communicate"
  /\ streamClosed' = TRUE
  /\ returncode' = exitCode
  /\ childState' = IF childState = "exited" THEN "reaped" ELSE childState
  /\ pc' = "check"
  /\ UNCHANGED <<inputVars, new_env, command, log, attempts, popenVars,
                 exc, result, exitCode, emitted, pipe, writeOpen>>

\* line 51: p.communicate() reads the rest of stdout, closes it and waits
Communicate ==
  /\ pc = "communicate"
  /\ childState = "exited"
  /\ streamClosed' = TRUE
  /\ returncode' = exitCode
  /\ childState' = "reaped"
  /\ pc' = "check"
  /\ UNCHANGED <<inputVars, new_env, command, log, attempts, popenVars,
                 exc, result, exitCode, emitted, pipe, writeOpen>>

\* lines 53-54
Check ==
  /\ pc = "check"
  /\ exc' = IF ShouldRaise(check, returncode)
              THEN CalledProcessError(returncode, popenArgs, StreamRef, None)
              ELSE exc
  /\ pc' = "exit"
  /\ UNCHANGED <<inputVars, new_env, command, log, attempts, popenVars,
                 returncode, result, childVars, streamClosed>>

ExitClose_LeakStream ==
  /\ pc = "exit"
  /\ pc' = "exit_wait"
  /\ UNCHANGED <<inputVars, new_env, command, log, attempts, popenVars,
                 returncode, exc, result, childVars, streamClosed>>

\* line 41, Popen.__exit__: close the stream ...
ExitClose ==
  /\ pc = "exit"
  /\ streamClosed' = TRUE
  /\ pc' = "exit_wait"
  /\ UNCHANGED <<inputVars, new_env, command, log, attempts, popenVars,
                 returncode, exc, result, childVars>>

\* ... and wait for the child; then the exception propagates, or line 55
ExitWait ==
  /\ pc = "exit_wait"
  /\ childState \in {"exited", "reaped"}
  /\ childState' = "reaped"
  /\ returncode' = exitCode
  /\ pc' = IF exc = NoExc THEN "return" ELSE "done"
  /\ UNCHANGED <<inputVars, new_env, command, log, attempts, popenVars,
                 exc, result, exitCode, emitted, pipe, writeOpen,
                 streamClosed>>

\* line 55
Return ==
  /\ pc = "return"
  /\ result' = CompletedProcess(popenArgs, returncode, StreamRef, None)
  /\ pc' = "done"
  /\ UNCHANGED <<inputVars, new_env, command, log, attempts, popenVars,
                 returncode, exc, childVars, streamClosed>>

\* ------------------------------------------------------ the child process
ChildEmit ==
  /\ childState = "running"
  /\ writeOpen
  /\ ~streamClosed
  /\ Len(emitted) < MaxLines
  /\ \E l \in LineValues :
       /\ emitted' = Append(emitted, l)
       /\ pipe' = Append(pipe, l)
  /\ UNCHANGED <<inputVars, pc, new_env, command, log, attempts, popenVars,
                 returncode, exc, result, childState, exitCode, writeOpen,
                 streamClosed>>

ChildCloseStdout ==
  /\ childState = "running"
  /\ writeOpen
  /\ writeOpen' = FALSE
  /\ UNCHANGED <<inputVars, pc, new_env, command, log, attempts, popenVars,
                 returncode, exc, result, childState, exitCode, emitted,
                 pipe, streamClosed>>

ChildExit ==
  /\ childState = "running"
  /\ \E c \in ExitCodes : exitCode' = <<c>>
  /\ childState' = "exited"
  /\ writeOpen' = FALSE
  /\ UNCHANGED <<inputVars, pc, new_env, command, log, attempts, popenVars,
                 returncode, exc, result, emitted, pipe, streamClosed>>

RunStep ==
  \/ Prepare \/ PopenOK \/ PopenFail \/ ReadLine \/ ReadEOF \/ Communicate
  \/ Check \/ ExitClose \/ ExitWait \/ Return

Next ==
  \/ Prepare
  \/ PopenOK
  \/ PopenFail
  \/ ReadLine
  \/ ReadEOF
  \/ Communicate
  \/ Check
  \/ ExitClose
  \/ ExitWait
  \/ Return
  \/ ChildEmit
  \/ ChildCloseStdout
  \/ ChildExit

Spec == Init /\ [][Next]_vars

\* run() is one thread: a step of it that stays possible is taken.  The
\* child is not obliged to do anything.
FairSpec == Init /\ [][Next]_vars /\ WF_vars(RunStep)

\* ----------------------------------------------------- shared vocabulary
Launched == childState # "none"

AllDecodable(ls) == \A i \in 1..Len(ls) : Decodable(ls[i])

\* the for loop of lines 48-49 ran to end of stream
ReadingComplete ==
  \/ pc \in {"communicate", "check", "return"}
  \/ /\ pc \in {"exit", "exit_wait", "done"}
     /\ exc.kind \in {"none", "CalledProcessError"}

\* run() is at or past the exit-code test of line 53
AtOrPastCheck ==
  \/ pc \in {"check", "return"}
  \/ /\ pc \in {"exit", "exit_wait", "done"}
     /\ exc.kind \in {"none", "CalledProcessError"}

RECURSIVE Concat(_)
Concat(ls) == IF ls = <<>> THEN <<>> ELSE Head(ls) \o Concat(Tail(ls))

\* what a caller gets from an output field: the field is the stream object
Readable(f) == ~(f = StreamRef /\ streamClosed)
Contents(f) == IF f = StreamRef THEN Concat(pipe) ELSE f

MustRaise == check /\ exitCode # <<>> /\ exitCode[1] # 0

C3_LogIsCommandThenLines ==
  /\ (attempts > 0) =>
       /\ Len(log) >= 1
       /\ log[1] = CommandRecord(<<Wrapper>> \o args, workdir)
  /\ ReadingComplete =>
       /\ Len(log) = 1 + Len(emitted)
       /\ \A i \in 1..Len(emitted) :
            log[i + 1] = [msg |-> rstrip(decode(emitted[i]))]

C3_Witness ==
  /\ pc = "done"
  /\ Len(emitted) = 2
  /\ emitted[1] # emitted[2]
  /\ Len(log) = 3
  /\ log[2] # log[3]

\* ------------------------------------------------------------------- C4
\* C4: when run has ended after a launch, the stream is closed and the
\* child has been waited for.
C4_ResourcesReleased ==
  (pc = "done" /\ Launched) => (streamClosed /\ childState = "reaped")

C4_Witness ==
  /\ pc = "done"
  /\ exc.kind = "UnicodeDecodeError"
  /\ streamClosed
  /\ childState = "reaped"

\* ------------------------------------------------------------------- C5
\* C5: from the exit-code test on, the child has terminated with a known
\* exit code, the stream has been read to its end and every emitted line
\* has been logged.
C5_CheckAfterDrainAndExit ==
  AtOrPastCheck =>
    /\ childState = "reaped"
    /\ exitCode # <<>>
    /\ returncode = exitCode
    /\ pipe = <<>>
    /\ ~writeOpen
    /\ Len(log) = 1 + Len(emitted)

C5_Witness ==
  /\ pc = "done"
  /\ result.kind = "CompletedProcess"
  /\ Len(emitted) >= 1
  /\ exitCode = <<0>>

\* ------------------------------------------------------------------- C6
\* C6: the error and the result carry the exit code, the launched argument
\* vector, and the child's output, readable through the output field.
C6_CarriesOutput ==
  /\ (pc = "done" /\ exc.kind = "CalledProcessError") =>
       /\ exc.returncode = exitCode
       /\ exc.cmd = popenArgs
       /\ Readable(exc.output)
       /\ Contents(exc.output) = Concat(emitted)
  /\ (pc = "done" /\ result.kind = "CompletedProcess") =>
       /\ result.returncode = exitCode
       /\ result.args = popenArgs
       /\ Readable(result.stdout)
       /\ Contents(result.stdout) = Concat(emitted)

\* ------------------------------------------------------------------- C7
\* C7: the child's GRADLE_OPTS is the parent's when gradle_opts is empty and
\* gradle_opts otherwise; all but ADB_INSTALL_TIMEOUT are the parent's.
C7_GradleOptsEnv ==
  Launched =>
    /\ (gradle_opts = "") => (popenEnv["GRADLE_OPTS"] = environ["GRADLE_OPTS"])
    /\ (gradle_opts # "") => (popenEnv["GRADLE_OPTS"] = gradle_opts)
    /\ \A n \in EnvNames \ {"GRADLE_OPTS", "ADB_INSTALL_TIMEOUT"} :
         popenEnv[n] = environ[n]

C7_Witness ==
  /\ Launched
  /\ gradle_opts = ""
  /\ environ["GRADLE_OPTS"] = "-Xmx1g"
  /\ popenEnv["GRADLE_OPTS"] = "-Xmx1g"

\* ------------------------------------------------------------------- C8
\* C8: the child's ADB_INSTALL_TIMEOUT is "5" in every call.
C8_TimeoutIsFive ==
  Launched => (popenEnv["ADB_INSTALL_TIMEOUT"] = "5")

C8_Witness ==
  /\ Launched
  /\ environ["ADB_INSTALL_TIMEOUT"] = "2"
  /\ popenEnv["ADB_INSTALL_TIMEOUT"] = "5"

\* ------------------------------------------------------------------- C9
\* C9: the launched command is './gradlew' followed by args in order, and
\* the cwd handed to Popen is workdir (None, no override, when omitted).
C9_CommandAndCwd ==
  Launched =>
    /\ Len(popenArgs) = 1 + Len(args)
    /\ popenArgs[1] = "./gradlew"
    /\ \A i \in 1..Len(args) : popenArgs[i + 1] = args[i]
    /\ popenCwd = workdir

C9_Witness ==
  /\ Launched
  /\ Len(args) = 2
  /\ args[1] # args[2]
  /\ workdir = "subproject"
  /\ popenCwd = "subproject"

\* ------------------------------------------------------------------ C10
\* C10: one launch at most; run ends with a result or an error, never both
\* or neither; a raised error is never replaced, followed by a launch, a log
\* record or a result; a failed launch ends run with the error and only the
\* command record logged.
C10_Inv ==
  /\ attempts <= 1
  /\ (pc = "done") => ((exc = NoExc) # (result = NoResult))
  /\ (pc = "done" /\ ~Launched) =>
       /\ exc.kind = "OSError"
       /\ result = NoResult
       /\ log = <<CommandRecord(<<Wrapper>> \o args, workdir)>>
  /\ (exc.kind = "UnicodeDecodeError") => (result = NoResult)

C10_Step ==
  (exc # NoExc) =>
    /\ exc' = exc
    /\ result' = NoResult
    /\ attempts' = attempts
    /\ log' = log

C10_ErrorsPropagate == []C10_Inv /\ [][C10_Step]_vars

C10_Witness ==
  /\ pc = "done"
  /\ attempts = 1
  /\ exc.kind = "OSError"
  /\ Len(log) = 1

TypeOK ==
  /\ pc \in {"start", "popen", "reading", "communicate", "check", "exit",
             "exit_wait", "return", "done"}
  /\ childState \in {"none", "running", "exited", "reaped"}
  /\ attempts \in 0..1
  /\ Len(emitted) <= MaxLines
====
